---- MODULE Spec2Model ----
(***************************************************************************)
(* httpize: a http.Handler that exports the methods of a MethodProvider.   *)
(* The model follows the handler source: Methods.Add and NewHandler build  *)
(* the registry, ServeHTTP dispatches one request at a time through its    *)
(* early returns, and providerError / fiveHundredError shape the errors.   *)
(***************************************************************************)
EXTENDS Integers, Sequences, FiniteSets, TLC

\* ------------------------------------------------------------------ bounds
MaxQuery == 2
MaxStream == 2
MaxCache == 1
MaxNow == 1
MaxAdds == 2
MaxDeclared == 2

\* the fixed size of argReflect and the cap of Methods.Add
MaxArgs == 10

\* ------------------------------------------------------------ error values
NilError == [kind |-> "nil", ErrorCode |-> 0, ErrorStr |-> "", Location |-> ""]

PlainError == [kind |-> "error", ErrorCode |-> 0, ErrorStr |-> "unsafe", Location |-> ""]

Non500Error(code, str, loc) ==
    [kind |-> "Non500Error", ErrorCode |-> code, ErrorStr |-> str, Location |-> loc]

SeeOther == Non500Error(303, "See Other", "http://lookhere")

Moved == Non500Error(301, "Moved", "http://elsewhere")

Temporary == Non500Error(307, "Temporary Redirect", "http://later")

BadRequest == Non500Error(400, "Bad Request", "")

\* ------------------------------------------------------------- the response
Unset == "<unset>"

NoExpires == [set |-> FALSE, sec |-> 0]

NewRecorder ==
    [status |-> 0,
     header |-> [ContentType |-> Unset, Expires |-> NoExpires,
                 ContentEncoding |-> Unset, Location |-> Unset],
     body |-> <<>>]

\* http.ResponseWriter.WriteHeader: only the first status counts
WriteHeader(resp, code) ==
    IF resp.status = 0 THEN [resp EXCEPT !.status = code] ELSE resp

\* http.ResponseWriter.Write: an implicit WriteHeader(200), then the bytes
Write(resp, seg) ==
    [WriteHeader(resp, 200) EXCEPT !.body = Append(@, seg)]

ErrorText(msg) == [enc |-> "identity", from |-> "error", data |-> <<msg, "\n">>]

\* http.Error(resp, msg, code)
httpError(resp, msg, code) ==
    Write(WriteHeader([resp EXCEPT !.header.ContentType = "text/plain; charset=utf-8"],
                      code),
          ErrorText(msg))

fiveHundredError(resp) == httpError(resp, "error", 500)

RedirectCodes == {301, 302, 303}

providerErrorGeneric(err, resp) == fiveHundredError(resp)

providerErrorNo303(err, resp) ==
    IF err.kind = "Non500Error"
    THEN httpError(IF err.ErrorCode \in {301, 302}
                   THEN [resp EXCEPT !.header.Location = err.Location]
                   ELSE resp,
                   err.ErrorStr, err.ErrorCode)
    ELSE fiveHundredError(resp)

providerError(err, resp) ==
    IF err.kind = "Non500Error"
    THEN httpError(IF err.ErrorCode \in RedirectCodes
                   THEN [resp EXCEPT !.header.Location = err.Location]
                   ELSE resp,
                   err.ErrorStr, err.ErrorCode)
    ELSE fiveHundredError(resp)

\* providerError logs only the error it does not classify
providerErrorLogs(err) == IF err.kind = "Non500Error" THEN 0 ELSE 1

\* ------------------------------------------------ argument types (Arg.Check)
Values == {"Gopher", "Rob", "Go'pher", "moved", "denied"}

Check(val) ==
    CASE val = "Gopher" -> NilError
      [] val = "Rob" -> NilError
      [] val = "Go'pher" -> PlainError
      [] val = "moved" -> Moved
      [] OTHER -> BadRequest

\* --------------------------------------------------- factories (createFunc)
Factory(kind, numIn, in0, numOut, out) ==
    [kind |-> kind, numIn |-> numIn, in0 |-> in0, numOut |-> numOut, out |-> out]

NewSafeString == Factory("func", 1, "string", 1, "Arg")

NewRaw == Factory("func", 1, "string", 1, "other")

FromInt == Factory("func", 1, "int", 1, "Arg")

TwoStrings == Factory("func", 2, "string", 1, "Arg")

TwoInts == Factory("func", 2, "int", 1, "Arg")

NoInput == Factory("func", 0, "none", 1, "Arg")

NoOutput == Factory("func", 1, "string", 0, "none")

NotFunc == Factory("string", 0, "none", 0, "none")

Factories ==
    {NewSafeString, NewRaw, FromInt, TwoStrings, TwoInts, NoInput, NoOutput, NotFunc}

\* the three panics of the loop of Methods.Add; In(0) itself panics on a
\* function without inputs
argCreateFuncPanics(f) ==
    \/ f.kind # "func"
    \/ f.numIn = 0
    \/ (f.numIn # 1 /\ f.in0 # "string")
    \/ f.numOut # 1

AddPanics(argNames, argCreateFuncs) ==
    IF Len(argNames) # Len(argCreateFuncs) THEN TRUE
    ELSE IF Len(argNames) > MaxArgs THEN TRUE
    ELSE \E k \in 1..Len(argNames) : argCreateFuncPanics(argCreateFuncs[k])

Unbound == [numIn |-> 0 - 1, out |-> <<>>]

NewCallDef(argNames, argCreateFuncs) ==
    [methodFunc |-> Unbound,
     argDefs |-> [k \in 1..Len(argNames) |->
                    [name |-> argNames[k], createFunc |-> argCreateFuncs[k]]]]

\* a[methodName] = callDef
Add(a, methodName, argNames, argCreateFuncs) ==
    [n \in (DOMAIN a) \cup {methodName} |->
        IF n = methodName THEN NewCallDef(argNames, argCreateFuncs) ELSE a[n]]

\* ------------------------------------------------------------ the provider
HandlerShape == <<"io.Reader", "*httpize.Settings", "error">>

ProviderMethods ==
    [n \in {"Greeting", "Echo", "Pair", "Raw", "Legacy"} |->
        CASE n = "Greeting" -> [numIn |-> 0, out |-> HandlerShape]
          [] n = "Echo" -> [numIn |-> 1, out |-> HandlerShape]
          [] n = "Pair" -> [numIn |-> 2, out |-> HandlerShape]
          [] n = "Raw" -> [numIn |-> 1, out |-> HandlerShape]
          [] OTHER -> [numIn |-> 0, out |-> <<"io.WriterTo", "*httpize.Settings", "error">>]]

\* the checks of the binding loop of NewHandler
BindPanics(n) ==
    IF n \notin DOMAIN ProviderMethods THEN TRUE
    ELSE Len(ProviderMethods[n].out) # 3 \/ ProviderMethods[n].out # HandlerShape

NewHandlerPanics(a) == \E n \in DOMAIN a : BindPanics(n)

NewHandler(a) == [n \in DOMAIN a |-> [a[n] EXCEPT !.methodFunc = ProviderMethods[n]]]

\* what the provider's Httpize registers in the serving specification
Httpize ==
    Add(Add(Add(Add(<<>>, "Greeting", <<>>, <<>>),
                "Echo", <<"name">>, <<NewSafeString>>),
            "Pair", <<"name", "id">>, <<NewSafeString, NewSafeString>>),
        "Raw", <<"name">>, <<NewRaw>>)

\* ------------------------------------------------------------- the settings
NilSettings == [isNil |-> TRUE, ContentType |-> "", Cache |-> 0, Gzip |-> FALSE]

\* Settings.SetToDefault
DefaultSettings == [isNil |-> FALSE, ContentType |-> "text/html", Cache |-> 0, Gzip |-> FALSE]

ReturnedSettings ==
    {NilSettings} \cup
    [isNil : {FALSE}, ContentType : {"", "application/json"},
     Cache : (0 - 1)..MaxCache, Gzip : BOOLEAN]

\* ------------------------------------------------------------- the streams
Chunks == <<"He", "llo", " Wo", "rld">>

NoFail == 0 - 1

NilReader == [isNil |-> TRUE, data |-> <<>>, failAt |-> NoFail]

\* a reader delivers data and then EOF, or fails after failAt chunks
Readers ==
    {NilReader} \cup
    {[isNil |-> FALSE, data |-> SubSeq(Chunks, 1, n), failAt |-> f] :
        <<n, f>> \in {x \in (0..MaxStream) \X (NoFail..MaxStream) : x[2] <= x[1]}}

ReturnedErrors == {NilError, PlainError, SeeOther, Temporary, BadRequest}

\* what a provider method may return
MethodResults == [reader : Readers, settings : ReturnedSettings, err : ReturnedErrors]

NoResult == [reader |-> NilReader, settings |-> NilSettings, err |-> NilError]

\* ------------------------------------------------------------ the requests
QueryNames == {"name", "id", "badparam"}

RECURSIVE SeqsUpTo(_, _)
SeqsUpTo(S, n) ==
    IF n = 0 THEN {<<>>}
    ELSE LET shorter == SeqsUpTo(S, n - 1)
         IN shorter \cup {Append(s, x) : s \in {t \in shorter : Len(t) = n - 1}, x \in S}

Queries ==
    {[ok |-> TRUE, pairs |-> p] : p \in SeqsUpTo(QueryNames \X Values, MaxQuery)}
    \cup {[ok |-> FALSE, pairs |-> <<>>]}

Paths ==
    {<<"", "Greeting">>, <<"", "api", "Echo">>, <<"", "Pair">>, <<"", "Raw">>, <<"", "Nope">>}

Requests ==
    [Method : {"GET", "POST", "PUT"}, Path : Paths, RawQuery : Queries,
     AcceptEncoding : {<<>>, <<"deflate", "gzip">>}]

NoRequest == [Method |-> "", Path |-> <<"">>, RawQuery |-> [ok |-> TRUE, pairs |-> <<>>],
              AcceptEncoding |-> <<>>]

Clock == [sec : 0..MaxNow, nsec : {0, 500}]

\* ------------------------------------------------------------------- state
VARIABLES
    methods,      \* Handler.methods
    phase,        \* "httpize" while the provider registers, then "ready" or "crashed"
    adds,         \* calls of Methods.Add so far
    lastAdd,      \* the latest call of Methods.Add and whether it panicked
    pc,           \* where ServeHTTP is
    req,          \* the request
    resp,         \* the response writer
    getParam,     \* url.ParseQuery(req.URL.RawQuery)
    i,            \* the loop index over argDefs (from 1)
    foundArgs,
    argReflect,
    invoked,      \* calls of the bound method for this request
    callArgs,     \* the arguments of that call
    rvals,        \* what the call returned
    settings,     \* the settings in effect
    compress,     \* the writer the stream is copied to
    now,          \* time.Now() at the Expires computation
    logs          \* log lines written for this request

vars ==
    <<methods, phase, adds, lastAdd, pc, req, resp, getParam, i, foundArgs, argReflect,
      invoked, callArgs, rvals, settings, compress, now, logs>>

registration == <<methods, phase, adds, lastAdd>>

ZeroValue == [valid |-> FALSE, val |-> ""]

ZeroArgs == [k \in 1..MaxArgs |-> ZeroValue]

NoAdd == [methodName |-> "", argNames |-> <<>>, argCreateFuncs |-> <<>>, panicked |-> FALSE]

Idle ==
    /\ pc = "idle"
    /\ req = NoRequest
    /\ resp = NewRecorder
    /\ getParam = <<>>
    /\ i = 1
    /\ foundArgs = 0
    /\ argReflect = ZeroArgs
    /\ invoked = 0
    /\ callArgs = <<>>
    /\ rvals = NoResult
    /\ settings = NilSettings
    /\ compress = "none"
    /\ now = [sec |-> 0, nsec |-> 0]
    /\ logs = 0

\* the state after NewHandler(provider) returned
Init ==
    /\ methods = NewHandler(Httpize)
    /\ phase = "ready"
    /\ adds = 0
    /\ lastAdd = NoAdd
    /\ Idle

\* ------------------------------------------------------- ServeHTTP, helpers
Last(s) == s[Len(s)]

\* strings.Split(req.URL.Path, "/") and its last part
methodName == Last(req.Path)

callDef == methods[methodName]

numArgs == Len(callDef.argDefs)

ValuesOf(pairs, k) ==
    LET at == SelectSeq([j \in 1..Len(pairs) |-> j], LAMBDA j : pairs[j][1] = k)
    IN [n \in 1..Len(at) |-> pairs[at[n]][2]]

\* url.ParseQuery: every key with its values in query order
ParseQuery(pairs) ==
    [k \in {pairs[j][1] : j \in 1..Len(pairs)} |-> ValuesOf(pairs, k)]

RECURSIVE CountValues(_, _)
CountValues(m, keys) ==
    IF keys = {} THEN 0
    ELSE LET k == CHOOSE x \in keys : TRUE
         IN Len(m[k]) + CountValues(m, keys \ {k})

\* the loop that counts every value of every key
getParamCount(m) == CountValues(m, DOMAIN m)

calledIncorrectlyMissingOnly(found, declared, supplied) == found # declared

calledIncorrectly(found, declared, supplied) ==
    found # declared \/ found # supplied

\* createFunc.Call with one string: reflect panics unless the function takes
\* exactly one input a string is assignable to
CreateCallPanics(f) == f.numIn # 1 \/ f.in0 # "string"

\* getValueReflect[0] = reflect.ValueOf(v[0])
FirstValue(v) == v[1]

ReversedArgs(args, n) == [k \in 1..n |-> args[n + 1 - k]]

\* argReflect[0:numArgs]
SliceArgs(args, n) == SubSeq([k \in 1..MaxArgs |-> args[k]], 1, n)

OnlyClassified(err) == err.kind = "Non500Error"

\* err, isError := rvals[2].Interface().(error); isError && err != nil
IsError(err) == err.kind # "nil"

EffectiveSettings(s) == IF s.isNil THEN DefaultSettings ELSE s

Contains(header, token) == \E k \in 1..Len(header) : header[k] = token

CachedAnyMethod(s, r) == s.Cache > 0

\* settings.Cache > 0 && req.Method == "GET"
Cached(s, r) == s.Cache > 0 /\ r.Method = "GET"

\* time.Now().UTC().Unix()
Unix(t) == t.sec

\* time.Unix(now+settings.Cache, 0).UTC().Format(time.RFC1123)
ExpiresAt(t, s) == [set |-> TRUE, sec |-> Unix(t) + s.Cache]

GzipAlways(s, r) == s.Gzip

\* settings.Gzip && strings.Contains(req.Header.Get("Accept-Encoding"), "gzip")
UseGzip(s, r) == s.Gzip /\ Contains(r.AcceptEncoding, "gzip")

GzipFrame == [enc |-> "gzip", from |-> "frame", data |-> <<>>]

Deflated(data) == [enc |-> "gzip", from |-> "stream", data |-> data]

Plain(data) == [enc |-> "identity", from |-> "stream", data |-> data]

\* what the reader delivers before io.Copy stops
Delivered(reader) ==
    IF reader.failAt = NoFail THEN reader.data ELSE SubSeq(reader.data, 1, reader.failAt)

\* io.Copy into the writer: gzip writes its header on the first Write and
\* keeps the data until Close; the response writer takes the bytes at once
Copied(r, w, data) ==
    IF data = <<>> THEN r
    ELSE IF w = "gzip" THEN Write(r, GzipFrame) ELSE Write(r, Plain(data))

\* the deferred gz.Close(): the header if no Write came, the data, the trailer
Closed(r, w, data) ==
    IF w # "gzip" THEN r
    ELSE Write(IF data = <<>> THEN Write(r, GzipFrame) ELSE r, Deflated(data))

\* ServeHTTP returns without a Write: the server sends the header with 200
Flushed(r) == WriteHeader(r, 200)

\* --------------------------------------------------------------- ServeHTTP
Reset ==
    /\ resp' = NewRecorder
    /\ getParam' = <<>>
    /\ i' = 1
    /\ foundArgs' = 0
    /\ argReflect' = ZeroArgs
    /\ invoked' = 0
    /\ callArgs' = <<>>
    /\ rvals' = NoResult
    /\ settings' = NilSettings
    /\ compress' = "none"
    /\ now' = [sec |-> 0, nsec |-> 0]
    /\ logs' = 0

\* the server hands the next request to ServeHTTP with a fresh response
Receive(R) ==
    /\ phase = "ready"
    /\ pc = "idle"
    /\ \E r \in R : req' = r
    /\ pc' = "start"
    /\ Reset
    /\ UNCHANGED registration

\* ServeHTTP returned or panicked; nothing of the request is kept
Finished ==
    /\ pc \in {"done", "panic"}
    /\ pc' = "idle"
    /\ req' = NoRequest
    /\ Reset
    /\ UNCHANGED registration

ServeRequest == Receive(Requests)

\* an early return with the generic error
Return500 ==
    /\ resp' = fiveHundredError(resp)
    /\ logs' = logs + 1
    /\ pc' = "done"

UnsupportedMethod ==
    /\ pc = "start"
    /\ req.Method # "GET" /\ req.Method # "POST"
    /\ Return500
    /\ UNCHANGED <<registration, req, getParam, i, foundArgs, argReflect, invoked,
                   callArgs, rvals, settings, compress, now>>

Routed == pc = "start" /\ req.Method \in {"GET", "POST"}

MethodNotDefined ==
    /\ Routed
    /\ methodName \notin DOMAIN methods
    /\ Return500
    /\ UNCHANGED <<registration, req, getParam, i, foundArgs, argReflect, invoked,
                   callArgs, rvals, settings, compress, now>>

BadQuery ==
    /\ Routed
    /\ methodName \in DOMAIN methods
    /\ ~req.RawQuery.ok
    /\ Return500
    /\ UNCHANGED <<registration, req, getParam, i, foundArgs, argReflect, invoked,
                   callArgs, rvals, settings, compress, now>>

BeginArgs ==
    /\ Routed
    /\ methodName \in DOMAIN methods
    /\ req.RawQuery.ok
    /\ getParam' = ParseQuery(req.RawQuery.pairs)
    /\ i' = 1
    /\ foundArgs' = 0
    /\ pc' = "args"
    /\ UNCHANGED <<registration, req, resp, argReflect, invoked, callArgs, rvals,
                   settings, compress, now, logs>>

InLoop == pc = "args" /\ i <= numArgs

argDef == callDef.argDefs[i]

ArgAbsent ==
    /\ InLoop
    /\ argDef.name \notin DOMAIN getParam
    /\ i' = i + 1
    /\ UNCHANGED <<registration, pc, req, resp, getParam, foundArgs, argReflect, invoked,
                   callArgs, rvals, settings, compress, now, logs>>

Present == InLoop /\ argDef.name \in DOMAIN getParam

created == FirstValue(getParam[argDef.name])

ArgCreatePanic ==
    /\ Present
    /\ CreateCallPanics(argDef.createFunc)
    /\ pc' = "panic"
    /\ UNCHANGED <<registration, req, resp, getParam, i, foundArgs, argReflect, invoked,
                   callArgs, rvals, settings, compress, now, logs>>

Created == Present /\ ~CreateCallPanics(argDef.createFunc)

BadParameter ==
    /\ Created
    /\ argDef.createFunc.out # "Arg"
    /\ argReflect' = [argReflect EXCEPT ![i] = [valid |-> TRUE, val |-> created]]
    /\ Return500
    /\ UNCHANGED <<registration, req, getParam, i, foundArgs, invoked, callArgs, rvals,
                   settings, compress, now>>

CheckFailed ==
    /\ Created
    /\ argDef.createFunc.out = "Arg"
    /\ Check(created) # NilError
    /\ argReflect' = [argReflect EXCEPT ![i] = [valid |-> TRUE, val |-> created]]
    /\ resp' = providerError(Check(created), resp)
    /\ logs' = logs + providerErrorLogs(Check(created))
    /\ pc' = "done"
    /\ UNCHANGED <<registration, req, getParam, i, foundArgs, invoked, callArgs, rvals,
                   settings, compress, now>>

ArgFound ==
    /\ Created
    /\ argDef.createFunc.out = "Arg"
    /\ Check(created) = NilError
    /\ argReflect' = [argReflect EXCEPT ![i] = [valid |-> TRUE, val |-> created]]
    /\ foundArgs' = foundArgs + 1
    /\ i' = i + 1
    /\ UNCHANGED <<registration, pc, req, resp, getParam, invoked, callArgs, rvals,
                   settings, compress, now, logs>>

LoopDone == pc = "args" /\ i > numArgs

CalledIncorrectly ==
    /\ LoopDone
    /\ calledIncorrectly(foundArgs, numArgs, getParamCount(getParam))
    /\ Return500
    /\ UNCHANGED <<registration, req, getParam, i, foundArgs, argReflect, invoked,
                   callArgs, rvals, settings, compress, now>>

Callable == LoopDone /\ ~calledIncorrectly(foundArgs, numArgs, getParamCount(getParam))

\* methodFunc.Call panics unless the method takes exactly the arguments given
CallPanic ==
    /\ Callable
    /\ callDef.methodFunc.numIn # numArgs
    /\ pc' = "panic"
    /\ UNCHANGED <<registration, req, resp, getParam, i, foundArgs, argReflect, invoked,
                   callArgs, rvals, settings, compress, now, logs>>

Call ==
    /\ Callable
    /\ callDef.methodFunc.numIn = numArgs
    /\ invoked' = invoked + 1
    /\ callArgs' = SliceArgs(argReflect, numArgs)
    /\ \E rv \in MethodResults : rvals' = rv
    /\ pc' = "returned"
    /\ UNCHANGED <<registration, req, resp, getParam, i, foundArgs, argReflect,
                   settings, compress, now, logs>>

MethodError ==
    /\ pc = "returned"
    /\ IsError(rvals.err)
    /\ resp' = providerError(rvals.err, resp)
    /\ logs' = logs + providerErrorLogs(rvals.err)
    /\ pc' = "done"
    /\ UNCHANGED <<registration, req, getParam, i, foundArgs, argReflect, invoked,
                   callArgs, rvals, settings, compress, now>>

\* the headers the settings give, and the choice of the writer
ApplySettings ==
    /\ pc = "returned"
    /\ ~IsError(rvals.err)
    /\ \E t \in Clock : now' = t
    /\ settings' = EffectiveSettings(rvals.settings)
    /\ resp' =
         [resp EXCEPT
            !.header.ContentType =
                IF settings'.ContentType # "" THEN settings'.ContentType ELSE @,
            !.header.Expires =
                IF Cached(settings', req) THEN ExpiresAt(now', settings') ELSE @,
            !.header.ContentEncoding =
                IF UseGzip(settings', req) THEN "gzip" ELSE @]
    /\ compress' = IF UseGzip(settings', req) THEN "gzip" ELSE "identity"
    /\ pc' = "reader"
    /\ UNCHANGED <<registration, req, getParam, i, foundArgs, argReflect, invoked,
                   callArgs, rvals, logs>>

\* rvals[0].Interface().(io.Reader) panics on a nil interface, so the
\* reader == nil branch after it is never entered; gz.Close() still runs
NilReaderPanic ==
    /\ pc = "reader"
    /\ rvals.reader.isNil
    /\ resp' = Closed(resp, compress, <<>>)
    /\ pc' = "panic"
    /\ UNCHANGED <<registration, req, getParam, i, foundArgs, argReflect, invoked,
                   callArgs, rvals, settings, compress, now, logs>>

CopyDone ==
    /\ pc = "reader"
    /\ ~rvals.reader.isNil
    /\ rvals.reader.failAt = NoFail
    /\ resp' = Flushed(Closed(Copied(resp, compress, Delivered(rvals.reader)),
                              compress, Delivered(rvals.reader)))
    /\ pc' = "done"
    /\ UNCHANGED <<registration, req, getParam, i, foundArgs, argReflect, invoked,
                   callArgs, rvals, settings, compress, now, logs>>

CopyFailed ==
    /\ pc = "reader"
    /\ ~rvals.reader.isNil
    /\ rvals.reader.failAt # NoFail
    /\ resp' = Closed(fiveHundredError(Copied(resp, compress, Delivered(rvals.reader))),
                      compress, Delivered(rvals.reader))
    /\ logs' = logs + 1
    /\ pc' = "done"
    /\ UNCHANGED <<registration, req, getParam, i, foundArgs, argReflect, invoked,
                   callArgs, rvals, settings, compress, now>>

Next ==
    \/ ServeRequest
    \/ UnsupportedMethod
    \/ MethodNotDefined
    \/ BadQuery
    \/ BeginArgs
    \/ ArgAbsent
    \/ BadParameter
    \/ CheckFailed
    \/ ArgFound
    \/ CalledIncorrectly
    \/ Call
    \/ MethodError
    \/ ApplySettings
    \/ NilReaderPanic
    \/ CopyDone
    \/ CopyFailed
    \/ Finished

Spec == Init /\ [][Next]_vars

\* ------------------------------------------- registration and NewHandler
ArgNames == <<"name", "id", "lang", "page">>

TooMany == MaxArgs + 1

ArgNameLists ==
    {SubSeq(ArgNames, 1, n) : n \in 0..MaxDeclared} \cup {[k \in 1..TooMany |-> "name"]}

ArgCreateFuncLists ==
    SeqsUpTo(Factories, MaxDeclared) \cup {[k \in 1..TooMany |-> NewSafeString]}

MethodNames == (DOMAIN ProviderMethods) \cup {"Missing"}

\* the state when NewHandler calls provider.Httpize(h.methods)
InitStartup ==
    /\ methods = <<>>
    /\ phase = "httpize"
    /\ adds = 0
    /\ lastAdd = NoAdd
    /\ Idle

request ==
    <<pc, req, resp, getParam, i, foundArgs, argReflect, invoked, callArgs, rvals,
      settings, compress, now, logs>>

\* Methods.Add returns after it stored the CallDef
AddStored ==
    /\ phase = "httpize"
    /\ adds < MaxAdds
    /\ \E n \in MethodNames, names \in ArgNameLists, funcs \in ArgCreateFuncLists :
         /\ ~AddPanics(names, funcs)
         /\ methods' = Add(methods, n, names, funcs)
         /\ lastAdd' = [methodName |-> n, argNames |-> names, argCreateFuncs |-> funcs,
                        panicked |-> FALSE]
    /\ adds' = adds + 1
    /\ UNCHANGED <<phase, request>>

\* Methods.Add panics; the panic leaves Httpize and NewHandler
AddPanic ==
    /\ phase = "httpize"
    /\ adds < MaxAdds
    /\ \E n \in MethodNames, names \in ArgNameLists, funcs \in ArgCreateFuncLists :
         /\ AddPanics(names, funcs)
         /\ lastAdd' = [methodName |-> n, argNames |-> names, argCreateFuncs |-> funcs,
                        panicked |-> TRUE]
    /\ adds' = adds + 1
    /\ phase' = "crashed"
    /\ UNCHANGED <<methods, request>>

\* Httpize returned; the binding loop panics on a method it cannot bind
BindPanic ==
    /\ phase = "httpize"
    /\ NewHandlerPanics(methods)
    /\ phase' = "crashed"
    /\ lastAdd' = NoAdd
    /\ UNCHANGED <<methods, adds, request>>

\* Httpize returned; every method is bound and NewHandler returns the handler
\* (a nil provider registers nothing and leaves the same empty registry)
Bound ==
    /\ phase = "httpize"
    /\ ~NewHandlerPanics(methods)
    /\ methods' = NewHandler(methods)
    /\ phase' = "ready"
    /\ lastAdd' = NoAdd
    /\ UNCHANGED <<adds, request>>

ProbeQueries ==
    {[ok |-> FALSE, pairs |-> <<>>],
     [ok |-> TRUE, pairs |-> <<>>],
     [ok |-> TRUE, pairs |-> <<<<"name", "Gopher">>>>],
     [ok |-> TRUE, pairs |-> <<<<"name", "moved">>>>],
     [ok |-> TRUE, pairs |-> <<<<"name", "Gopher">>, <<"id", "Rob">>>>]}

ProbeRequests ==
    [Method : {"GET", "PUT"},
     Path : {<<"", "Greeting">>, <<"", "api", "Echo">>, <<"", "Pair">>, <<"", "Nope">>},
     RawQuery : ProbeQueries, AcceptEncoding : {<<"deflate", "gzip">>}]

ProbeRequest == Receive(ProbeRequests)

NextStartup ==
    \/ AddStored
    \/ AddPanic
    \/ BindPanic
    \/ Bound
    \/ ProbeRequest
    \/ UnsupportedMethod
    \/ MethodNotDefined
    \/ BadQuery
    \/ BeginArgs
    \/ ArgAbsent
    \/ ArgCreatePanic
    \/ BadParameter
    \/ CheckFailed
    \/ ArgFound
    \/ CalledIncorrectly
    \/ CallPanic
    \/ Call
    \/ MethodError
    \/ ApplySettings
    \/ NilReaderPanic
    \/ CopyDone
    \/ CopyFailed
    \/ Finished

SpecStartup == InitStartup /\ [][NextStartup]_vars

\* ---------------------------------------------------------------- claims
\* The request as the claims describe it, read off the request itself.
Returned == pc \in {"done", "panic"}

RoutedToMethod ==
    /\ pc # "idle"
    /\ req.Method \in {"GET", "POST"}
    /\ Last(req.Path) \in DOMAIN methods
    /\ req.RawQuery.ok

declared == methods[Last(req.Path)].argDefs

QueryKeys == {req.RawQuery.pairs[j][1] : j \in 1..Len(req.RawQuery.pairs)}

Occurrences(key) ==
    Cardinality({j \in 1..Len(req.RawQuery.pairs) : req.RawQuery.pairs[j][1] = key})

Supplied(key) ==
    LET first == CHOOSE j \in 1..Len(req.RawQuery.pairs) :
                    /\ req.RawQuery.pairs[j][1] = key
                    /\ \A h \in 1..(j - 1) : req.RawQuery.pairs[h][1] # key
    IN req.RawQuery.pairs[first][2]

DeclaredNames == {declared[k].name : k \in 1..Len(declared)}

OmitsDeclared == \E k \in 1..Len(declared) : declared[k].name \notin QueryKeys

HasUndeclared == \E key \in QueryKeys : key \notin DeclaredNames

RepeatsDeclared == \E k \in 1..Len(declared) : Occurrences(declared[k].name) > 1

Miscalled == OmitsDeclared \/ HasUndeclared \/ RepeatsDeclared

\* the declared parameters that are present and do not pass the argument pass
Failing ==
    {k \in 1..Len(declared) :
        /\ declared[k].name \in QueryKeys
        /\ \/ declared[k].createFunc.out # "Arg"
           \/ Check(Supplied(declared[k].name)).kind # "nil"}

FirstFailing == CHOOSE k \in Failing : \A j \in Failing : k <= j

\* the first failing parameter fails Check with an application error
FailsClassified ==
    /\ Failing # {}
    /\ declared[FirstFailing].createFunc.out = "Arg"
    /\ Check(Supplied(declared[FirstFailing].name)).kind = "Non500Error"

CheckError == Check(Supplied(declared[FirstFailing].name))

AllValid ==
    \A k \in 1..Len(declared) :
        declared[k].name \in QueryKeys =>
            /\ declared[k].createFunc.out = "Arg"
            /\ Check(Supplied(declared[k].name)).kind = "nil"

StreamData(body) ==
    LET parts == SelectSeq(body, LAMBDA seg : seg.from = "stream")
        cat[n \in 0..Len(parts)] == IF n = 0 THEN <<>> ELSE cat[n - 1] \o parts[n].data
    IN cat[Len(parts)]

FromStream(body) == {k \in 1..Len(body) : body[k].from \in {"stream", "frame"}}

InEffect == IF rvals.settings.isNil THEN DefaultSettings ELSE rvals.settings

AcceptsGzip == \E k \in 1..Len(req.AcceptEncoding) : req.AcceptEncoding[k] = "gzip"

ReturnedNoError == pc \in {"reader", "done", "panic"} /\ invoked = 1 /\ rvals.err.kind = "nil"

ReturnedAnError == pc \in {"done", "panic"} /\ invoked = 1 /\ rvals.err.kind # "nil"

CopyBroke == ~rvals.reader.isNil /\ rvals.reader.failAt # NoFail

\* C1 (as stated): a GET or POST request routed to a registered method whose
\* query omits a declared parameter, names an undeclared one or repeats a
\* declared one gets status 500 and the method is never invoked, whatever the
\* values supplied.
C1_Always500 ==
    (RoutedToMethod /\ Miscalled) =>
        /\ invoked = 0
        /\ Returned => resp.status = 500

\* C1 (amended): for such a request the method is never invoked, and the
\* status is 500 unless the first declared parameter that is present and
\* fails the argument pass fails Check with an application error; then the
\* status is that error's code.
C1_NeverInvoked ==
    (RoutedToMethod /\ Miscalled) =>
        /\ invoked = 0
        /\ Returned =>
             resp.status = IF FailsClassified THEN CheckError.ErrorCode ELSE 500

C1_Witness ==
    /\ RoutedToMethod /\ Returned
    /\ RepeatsDeclared /\ ~OmitsDeclared /\ ~HasUndeclared
    /\ Failing = {}
    /\ resp.status = 500
    /\ invoked = 0

Exact ==
    /\ RoutedToMethod
    /\ ~Miscalled
    /\ AllValid

ExpectedArgs == [k \in 1..Len(declared) |-> [valid |-> TRUE, val |-> Supplied(declared[k].name)]]

InvokedOnce ==
    /\ pc \in {"returned", "reader", "done", "panic"}
    /\ invoked = 1
    /\ callArgs = ExpectedArgs

WholeStream ==
    /\ resp.status = 200
    /\ StreamData(resp.body) = rvals.reader.data
    /\ \A k \in 1..Len(resp.body) : resp.body[k].from # "error"

\* C2 (as stated): a request supplying exactly the declared parameters, once
\* each and with values that pass Check, invokes the method exactly once with
\* the arguments in declared order; a non-nil stream with a nil error then
\* gives status 200 and the whole stream as the body.
C2_AlwaysOK ==
    Exact =>
        /\ pc \notin {"start", "args"} => InvokedOnce
        /\ (Returned /\ ~rvals.reader.isNil /\ rvals.err.kind = "nil") => WholeStream

\* C2 (amended): the same, for a stream that is read to its end without a
\* read error.
C2_OKWhenCopied ==
    Exact =>
        /\ pc \notin {"start", "args"} => InvokedOnce
        /\ (Returned /\ ~rvals.reader.isNil /\ rvals.err.kind = "nil" /\ ~CopyBroke)
               => WholeStream

C2_Witness ==
    /\ Exact /\ Returned
    /\ Len(declared) = 2
    /\ callArgs[1].val # callArgs[2].val
    /\ ~rvals.reader.isNil /\ rvals.err.kind = "nil" /\ ~CopyBroke
    /\ Len(rvals.reader.data) = MaxStream
    /\ resp.status = 200

\* C3: when the first declared parameter that fails validation fails Check
\* with an application error, the response carries that error's status code
\* and status string and the method is not invoked.
C3_CheckErrorReported ==
    (RoutedToMethod /\ FailsClassified) =>
        /\ invoked = 0
        /\ Returned =>
             /\ resp.status = CheckError.ErrorCode
             /\ resp.body = <<ErrorText(CheckError.ErrorStr)>>

C3_Witness ==
    /\ RoutedToMethod /\ Returned /\ FailsClassified
    /\ Cardinality(Failing) = 2
    /\ Check(Supplied(declared[2].name)).kind = "Non500Error"
    /\ Check(Supplied(declared[2].name)) # CheckError
    /\ resp.status = CheckError.ErrorCode

GzipWanted == InEffect.Gzip /\ AcceptsGzip

GzipIff ==
    /\ resp.header.ContentEncoding = (IF GzipWanted THEN "gzip" ELSE Unset)
    /\ \A k \in 1..Len(resp.body) :
          resp.body[k].enc = (IF GzipWanted THEN "gzip" ELSE "identity")

C5_Expires ==
    ReturnedNoError =>
        /\ resp.header.Expires.set <=> (InEffect.Cache > 0 /\ req.Method = "GET")
        /\ resp.header.Expires.set =>
             /\ resp.header.Expires.sec = now.sec + InEffect.Cache
             /\ \/ resp.header.Expires.sec > now.sec
                \/ resp.header.Expires.sec = now.sec /\ 0 > now.nsec

C5_Witness ==
    /\ ReturnedNoError /\ pc = "done"
    /\ req.Method = "GET"
    /\ InEffect.Cache = MaxCache
    /\ now.nsec > 0 /\ now.sec = MaxNow
    /\ resp.header.Expires.set

Classified(err) ==
    /\ resp.status = err.ErrorCode
    /\ resp.header.Location =
          (IF err.ErrorCode \in {301, 302, 303} THEN err.Location ELSE Unset)

Generic500 ==
    /\ resp.status = 500
    /\ resp.body = <<ErrorText("error")>>
    /\ resp.header.Location = Unset

\* C6: an application error from the method or from an argument's Check gives
\* exactly its status code, with Location set from it for 301, 302 and 303
\* and not set for any other code; any other error gives 500 and the generic
\* body.
C6_Classifier ==
    /\ ReturnedAnError =>
         IF rvals.err.kind = "Non500Error" THEN Classified(rvals.err) ELSE Generic500
    /\ (RoutedToMethod /\ Returned /\ Failing # {}
          /\ declared[FirstFailing].createFunc.out = "Arg") =>
         IF CheckError.kind = "Non500Error" THEN Classified(CheckError) ELSE Generic500

C6_Witness ==
    /\ ReturnedAnError
    /\ rvals.err = SeeOther
    /\ resp.status = 303
    /\ resp.header.Location = "http://lookhere"

\* C7: a nil stream returned with a nil error ends in status 500 and a log
\* entry, and nothing is copied to the response.
C7_NilReaderIs500 ==
    (Returned /\ invoked = 1 /\ rvals.err.kind = "nil" /\ rvals.reader.isNil) =>
        /\ pc = "done"
        /\ resp.status = 500
        /\ logs >= 1
        /\ FromStream(resp.body) = {}

Conforming(f) == f.kind = "func" /\ f.numIn = 1 /\ f.in0 = "string" /\ f.numOut = 1

MustReject(call) ==
    \/ Len(call.argNames) # Len(call.argCreateFuncs)
    \/ Len(call.argNames) > 10
    \/ \E k \in 1..Len(call.argCreateFuncs) : ~Conforming(call.argCreateFuncs[k])

\* C8: Methods.Add panics and adds nothing when the lengths differ, when
\* there are more than 10 parameters or when a factory is not a function of
\* one string input and one result; otherwise it stores one CallDef under
\* the method name with the argument names in order.
C8_AddRejects ==
    [][adds' = adds + 1 =>
         IF MustReject(lastAdd')
         THEN lastAdd'.panicked /\ methods' = methods
         ELSE /\ ~lastAdd'.panicked
              /\ DOMAIN methods' = (DOMAIN methods) \cup {lastAdd'.methodName}
              /\ Len(methods'[lastAdd'.methodName].argDefs) = Len(lastAdd'.argNames)
              /\ \A k \in 1..Len(lastAdd'.argNames) :
                    methods'[lastAdd'.methodName].argDefs[k].name = lastAdd'.argNames[k]]_vars

\* C9: once NewHandler has returned, every CallDef is bound to a method that
\* takes as many arguments as it has argDefs and returns (io.Reader,
\* *httpize.Settings, error), and no request panics in a reflective call.
C9_BoundAtStartup ==
    phase = "ready" =>
        /\ \A n \in DOMAIN methods :
              /\ methods[n].methodFunc.numIn = Len(methods[n].argDefs)
              /\ methods[n].methodFunc.out = HandlerShape
        /\ ~(pc = "panic" /\ invoked = 0)

\* C10: when the method returns an error the stream is never read or copied
\* and no header is taken from the settings.
C10_ErrorStops ==
    /\ (invoked = 1 /\ rvals.err.kind # "nil") => pc \in {"returned", "done"}
    /\ ReturnedAnError =>
         /\ FromStream(resp.body) = {}
         /\ resp.header.ContentType = "text/plain; charset=utf-8"
         /\ ~resp.header.Expires.set
         /\ resp.header.ContentEncoding = Unset

C10_Witness ==
    /\ ReturnedAnError
    /\ rvals.err = PlainError
    /\ ~rvals.reader.isNil /\ rvals.reader.data # <<>>
    /\ ~rvals.settings.isNil /\ rvals.settings.Gzip /\ rvals.settings.Cache > 0
    /\ rvals.settings.ContentType # ""
    /\ req.Method = "GET" /\ AcceptsGzip
    /\ resp.status = 500

====
